---- MODULE Spec2Model ----
(***************************************************************************)
(* Model of the bundling service of silius (crates/grpc/src/bundler.rs):   *)
(* the BundlerService with its shared running flag, the periodic loop      *)
(* tasks spawned by start_bundling, and the control surface                *)
(* (set_bundler_mode, send_bundle_now) served over gRPC.                   *)
(***************************************************************************)
EXTENDS Integers, Sequences, FiniteSets, TLC

\* ------------------------------------------------------------------ bounds
MaxBundlers == 2      \* longest list of entry points given at startup
MaxTasks    == 2      \* loop tasks alive at the same time
MaxTx       == 2      \* bundle transactions submitted in one run
MaxPolls    == 2      \* receipt polls of one send_bundle_now call
MaxPrev     == 2      \* pending operations of one sender in the mempool

Callers   == {1, 2}               \* concurrent gRPC handler tasks
UoIds     == {"uo"}               \* user operations pending for one entry point
Intervals == {0, 1}               \* u64 interval: zero, and a positive value
TaskIds   == 1 .. (MaxBundlers + MaxTasks)   \* positions among the live tasks

NoTx == 0             \* Option<H256>::None, and H256::default() in a response

VARIABLES
    phase,      \* position of bundler_service_run: "init", "constructed", "serving"
    bundlers,   \* BundlerService.bundlers: the entry point of each bundler
    running,    \* BundlerService.running (Arc<Mutex<bool>>)
    tasks,      \* live tasks spawned by start_bundling, in spawn order
    callers,    \* the gRPC handler tasks of the control surface
    mempool,    \* pending user operations of each entry point (uopool service)
    txs,        \* bundle transactions submitted to the blockchain client
    sanity      \* the Sender sanity check of one user operation: inputs and result

vars == <<phase, bundlers, running, tasks, callers, mempool, txs, sanity>>

\* ----------------------------------------------------------------- helpers
RemoveAt(s, i) == SubSeq(s, 1, i - 1) \o SubSeq(s, i + 1, Len(s))

Last(s) == s[Len(s)]

\* the live tasks once task i has become t: a task that has ended is dropped
Settle(ts, i, t) == IF t.pc = "end" THEN RemoveAt(ts, i) ELSE [ts EXCEPT ![i] = t]

\* ------------------------------------------------- external collaborators
\* UoPoolClient.get_sorted_user_operations as seen by get_user_operations:
\* `ok` is whether the gRPC call succeeded.
get_user_operations(ep, ok) ==
    IF ok THEN [ok |-> TRUE, uos |-> mempool[ep]]
          ELSE [ok |-> FALSE, uos |-> {}]

\* Bundler::send_bundle: an empty list is skipped with Ok(None); otherwise the
\* bundle is submitted, `ok` being whether the submission succeeded.
send_bundle(ep, uos, ok) ==
    IF uos = {} THEN [ok |-> TRUE, tx |-> NoTx, txs |-> txs]
    ELSE IF ok THEN [ok |-> TRUE, tx |-> Len(txs) + 1,
                     txs |-> Append(txs, [ep |-> ep, uos |-> uos, mined |-> FALSE])]
    ELSE [ok |-> FALSE, tx |-> NoTx, txs |-> txs]

\* --------------------------------------------------------- BundlerService
\* is_running: the flag read under the mutex
is_running == running

\* the tasks start_bundling spawns, one per bundler, in the order of the Vec
SpawnedTasks(int) ==
    [k \in 1 .. Len(bundlers) |->
        [bundler |-> k, pc |-> "new", int |-> int, uos |-> {}]]

\* the live tasks after start_bundling has spawned its loops (lines 92-123)
start_bundling_tasks(int) == tasks \o SpawnedTasks(int)

\* start_bundling without its guard
start_bundling_unguarded == TRUE

\* line 84: the guard of start_bundling, the flag read under the lock
start_bundling_guard == ~is_running

\* BundlerService::new, on the bundlers built from the configured entry points
\* (lines 203-219); the uopool service holds any pending operations for them
New ==
    /\ phase = "init"
    /\ \E n \in 0 .. MaxBundlers :
          /\ bundlers' = [k \in 1 .. n |-> k]
          /\ mempool' \in [1 .. n -> SUBSET UoIds]
    /\ running' = FALSE
    /\ phase' = "constructed"
    /\ UNCHANGED <<tasks, callers, txs, sanity>>

\* bundler_service_run after the construction: start_bundling(bundle_interval)
\* on the still private service, then the server is spawned
bundler_service_run ==
    /\ phase = "constructed"
    /\ \E int \in Intervals :
          IF start_bundling_guard
          THEN /\ running' = TRUE
               /\ tasks' = start_bundling_tasks(int)
          ELSE UNCHANGED <<running, tasks>>
    /\ phase' = "serving"
    /\ UNCHANGED <<bundlers, callers, mempool, txs, sanity>>

\* ------------------------------------------------- the spawned loop task
\* tokio::time::interval(Duration::from_secs(int)) panics on a zero period
interval_panics(int) == int = 0

\* line 98: the task builds its timer; a panic ends the task
LoopBuildInterval(i) ==
    /\ i \in 1 .. Len(tasks)
    /\ tasks[i].pc = "new"
    /\ tasks' = Settle(tasks, i,
                       IF interval_panics(tasks[i].int)
                       THEN [tasks[i] EXCEPT !.pc = "end"]
                       ELSE [tasks[i] EXCEPT !.pc = "timer"])
    /\ UNCHANGED <<phase, bundlers, running, callers, mempool, txs, sanity>>

\* a loop that never looks at the flag
loop_never_breaks == FALSE

\* lines 102-104: the task breaks out of the loop when the flag reads false
loop_breaks == ~is_running

\* lines 100-106: the timer fires, the flag is read, the fetch is issued
LoopTick(i) ==
    /\ i \in 1 .. Len(tasks)
    /\ tasks[i].pc = "timer"
    /\ tasks' = Settle(tasks, i,
                       IF loop_breaks
                       THEN [tasks[i] EXCEPT !.pc = "end"]
                       ELSE [tasks[i] EXCEPT !.pc = "fetch"])
    /\ UNCHANGED <<phase, bundlers, running, callers, mempool, txs, sanity>>

\* where the task goes after a failed fetch or send: back to the timer
loop_after_error(t) == [t EXCEPT !.pc = "timer", !.uos = {}]

\* lines 106-120: get_user_operations returns
LoopFetchReturn(i) ==
    /\ i \in 1 .. Len(tasks)
    /\ tasks[i].pc = "fetch"
    /\ \E ok \in BOOLEAN :
          LET r == get_user_operations(bundlers[tasks[i].bundler], ok)
          IN  tasks' = Settle(tasks, i,
                                 IF r.ok
                                 THEN [tasks[i] EXCEPT !.pc = "send", !.uos = r.uos]
                                 ELSE loop_after_error(tasks[i]))
    /\ UNCHANGED <<phase, bundlers, running, callers, mempool, txs, sanity>>

\* lines 113-115: send_bundle returns; the result is dropped, an error logged
LoopSendReturn(i) ==
    /\ i \in 1 .. Len(tasks)
    /\ tasks[i].pc = "send"
    /\ \E ok \in BOOLEAN :
          LET r == send_bundle(bundlers[tasks[i].bundler], tasks[i].uos, ok)
          IN  /\ Len(r.txs) <= MaxTx
              /\ txs' = r.txs
              /\ tasks' = Settle(tasks, i,
                                 IF r.ok
                                 THEN [tasks[i] EXCEPT !.pc = "timer", !.uos = {}]
                                 ELSE loop_after_error(tasks[i]))
    /\ UNCHANGED <<phase, bundlers, running, callers, mempool, sanity>>

\* a step of one of the live loop tasks
LoopStep ==
    \E i \in TaskIds :
        \/ LoopBuildInterval(i)
        \/ LoopTick(i)
        \/ LoopFetchReturn(i)
        \/ LoopSendReturn(i)

\* ------------------------------------------------------ control surface
IdleCaller ==
    [pc |-> "idle", op |-> "none", int |-> 0, spawned |-> FALSE, fetched |-> << >>, tx_hashes |-> << >>,
     failed |-> "none", res |-> NoTx, polls |-> 0, misses |-> 0, errs |-> 0,
     resp |-> [kind |-> "none", res |-> NoTx]]

\* the handler task has answered: resp is what the client receives
Answer(c, r) == [c EXCEPT !.pc = "done", !.resp = r]

SetModeOk == [kind |-> "ok", res |-> NoTx]

\* set_bundler_mode(Manual) answering without stopping
set_bundler_mode_Manual_keeps(c) ==
    /\ phase = "serving"
    /\ callers[c].pc = "idle"
    /\ callers' = [callers EXCEPT ![c] = Answer([IdleCaller EXCEPT !.op = "manual"], SetModeOk)]
    /\ UNCHANGED <<phase, bundlers, running, tasks, mempool, txs, sanity>>

\* stop_bundling (lines 73-77), called by set_bundler_mode(Manual)
set_bundler_mode_Manual(c) ==
    /\ phase = "serving"
    /\ callers[c].pc = "idle"
    /\ running' = FALSE
    /\ callers' = [callers EXCEPT ![c] = Answer([IdleCaller EXCEPT !.op = "manual"], SetModeOk)]
    /\ UNCHANGED <<phase, bundlers, tasks, mempool, txs, sanity>>

\* the loop tasks that calls between their guard and their spawning will add
PendingSpawns ==
    Cardinality({c \in Callers : callers[c].pc = "start_set"}) * Len(bundlers)

\* set_bundler_mode(Auto, int), lines 145-148, up to the guard of
\* start_bundling (line 84): the lock is released after the read
set_bundler_mode_Auto(c, int) ==
    /\ phase = "serving"
    /\ callers[c].pc = "idle"
    /\ IF start_bundling_guard
       THEN /\ Len(tasks) + PendingSpawns + Len(bundlers) <= MaxTasks
            /\ callers' = [callers EXCEPT ![c] =
                              [IdleCaller EXCEPT !.op = "auto", !.int = int, !.pc = "start_set"]]
       ELSE callers' = [callers EXCEPT ![c] =
                              Answer([IdleCaller EXCEPT !.op = "auto", !.int = int], SetModeOk)]
    /\ UNCHANGED <<phase, bundlers, running, tasks, mempool, txs, sanity>>

\* lines 87-123: the flag is set under the lock and the loops are spawned
start_bundling_spawn(c) ==
    /\ callers[c].pc = "start_set"
    /\ running' = TRUE
    /\ tasks' = start_bundling_tasks(callers[c].int)
    /\ callers' = [callers EXCEPT ![c] = Answer([callers[c] EXCEPT !.spawned = TRUE], SetModeOk)]
    /\ UNCHANGED <<phase, bundlers, mempool, txs, sanity>>

\* a failed step of send_bundles taken as "no bundle"
SendBundlesErrAsNone == [ok |-> TRUE, tx |-> NoTx]

\* the `?` of lines 62 and 63: send_bundles returns the error at once
SendBundlesErr == [ok |-> FALSE, tx |-> NoTx]

\* send_bundles returning the outcome of the last bundler
send_bundles_last(tx_hashes) == [ok |-> TRUE, tx |-> Last(tx_hashes)]

\* send_bundles taking a first bundler without transaction for a failure
send_bundles_none_is_error(tx_hashes) ==
    IF Head(tx_hashes) = NoTx THEN SendBundlesErr ELSE [ok |-> TRUE, tx |-> Head(tx_hashes)]

\* line 70: what send_bundles returns once every bundler has been processed
send_bundles_result(tx_hashes) == [ok |-> TRUE, tx |-> Head(tx_hashes)]

\* send_bundle_now polling whatever send_bundles returned
waits_always(res) == TRUE

\* line 162: whether send_bundle_now waits for a receipt of res
waits_for_receipt(res) == res # NoTx

\* a receipt wait that a failed query ends as well
receipt_or_error(r) == r # "none"

\* lines 172-176: whether the answer of get_transaction_receipt ends the wait
receipt_observed(r) == r = "some"

\* send_bundle_now answering a failure of send_bundles like "no transaction"
send_bundle_now_swallows(c, sb) ==
    IF ~sb.ok THEN Answer(c, [kind |-> "ok", res |-> NoTx])
    ELSE IF sb.tx # NoTx THEN [c EXCEPT !.pc = "poll", !.res = sb.tx]
    ELSE Answer([c EXCEPT !.res = sb.tx], [kind |-> "ok", res |-> sb.tx])

\* lines 157-181: the handler once send_bundles has returned sb
send_bundle_now_after(c, sb) ==
    IF ~sb.ok THEN Answer(c, [kind |-> "err", res |-> NoTx])
    ELSE IF waits_for_receipt(sb.tx) THEN [c EXCEPT !.pc = "poll", !.res = sb.tx]
    ELSE Answer([c EXCEPT !.res = sb.tx], [kind |-> "ok", res |-> sb.tx])

\* send_bundle_now enters send_bundles: with no bundler the loop of lines 60-66
\* is empty and the expect of line 70 panics; otherwise the first fetch is issued
send_bundle_now(c) ==
    /\ phase = "serving"
    /\ callers[c].pc = "idle"
    /\ callers' = [callers EXCEPT ![c] =
          IF Len(bundlers) = 0
          THEN Answer([IdleCaller EXCEPT !.op = "now"], [kind |-> "panic", res |-> NoTx])
          ELSE [IdleCaller EXCEPT !.op = "now", !.pc = "sb_fetch"]]
    /\ UNCHANGED <<phase, bundlers, running, tasks, mempool, txs, sanity>>

\* lines 61-62: get_user_operations of the current bundler returns
sb_fetch_return(c) ==
    /\ callers[c].pc = "sb_fetch"
    /\ \E ok \in BOOLEAN :
          LET i == Len(callers[c].fetched) + 1
              r == get_user_operations(bundlers[i], ok)
          IN  callers' = [callers EXCEPT ![c] =
                 IF r.ok
                 THEN [callers[c] EXCEPT !.pc = "sb_send", !.fetched = Append(@, r.uos)]
                 ELSE send_bundle_now_after([callers[c] EXCEPT !.failed = "fetch"],
                                            SendBundlesErr)]
    /\ UNCHANGED <<phase, bundlers, running, tasks, mempool, txs, sanity>>

\* lines 63-70: send_bundle of the current bundler returns; after the last
\* bundler send_bundles returns and send_bundle_now goes on
sb_send_return(c) ==
    /\ callers[c].pc = "sb_send"
    /\ \E ok \in BOOLEAN :
          LET i == Len(callers[c].fetched)
              r == send_bundle(bundlers[i], Last(callers[c].fetched), ok)
              pushed == [callers[c] EXCEPT !.tx_hashes = Append(@, r.tx)]
          IN  /\ Len(r.txs) <= MaxTx
              /\ txs' = r.txs
              /\ callers' = [callers EXCEPT ![c] =
                    IF ~r.ok
                    THEN send_bundle_now_after([callers[c] EXCEPT !.failed = "send"],
                                               SendBundlesErr)
                    ELSE IF i < Len(bundlers)
                    THEN [pushed EXCEPT !.pc = "sb_fetch"]
                    ELSE send_bundle_now_after(pushed, send_bundles_result(pushed.tx_hashes))]
    /\ UNCHANGED <<phase, bundlers, running, tasks, mempool, sanity>>

\* what the blockchain client can answer to get_transaction_receipt(tx)
ReceiptAnswers(tx) ==
    {"err"} \cup (IF tx \in 1 .. Len(txs) /\ txs[tx].mined THEN {"some"} ELSE {"none"})

\* a failed receipt query ending the call with a failure
poll_outcome_err_fails(polled, r) ==
    IF r = "err" THEN Answer(polled, [kind |-> "err", res |-> NoTx])
    ELSE IF r = "some" THEN Answer(polled, [kind |-> "ok", res |-> polled.res])
    ELSE [polled EXCEPT !.pc = "sleep"]

\* lines 172-177: break with the receipt, or sleep before the next query
poll_outcome(polled, r) ==
    IF receipt_observed(r)
    THEN Answer(polled, [kind |-> "ok", res |-> polled.res])
    ELSE [polled EXCEPT !.pc = "sleep"]

\* lines 165-176: get_transaction_receipt returns; polls, misses and errs
\* count the answers, those that carried no receipt and those that were errors
poll_return(c) ==
    /\ callers[c].pc = "poll"
    /\ callers[c].polls < MaxPolls
    /\ \E r \in ReceiptAnswers(callers[c].res) :
          LET polled == [callers[c] EXCEPT !.polls = @ + 1,
                                           !.misses = @ + (IF r = "some" THEN 0 ELSE 1),
                                           !.errs = @ + (IF r = "err" THEN 1 ELSE 0)]
          IN  callers' = [callers EXCEPT ![c] = poll_outcome(polled, r)]
    /\ UNCHANGED <<phase, bundlers, running, tasks, mempool, txs, sanity>>

\* line 177: the sleep of 50 ms is over, the next receipt query is issued
sleep_done(c) ==
    /\ callers[c].pc = "sleep"
    /\ callers' = [callers EXCEPT ![c].pc = "poll"]
    /\ UNCHANGED <<phase, bundlers, running, tasks, mempool, txs, sanity>>

\* the response has been sent and the handler task is gone
Reply(c) ==
    /\ callers[c].pc = "done"
    /\ callers' = [callers EXCEPT ![c] = IdleCaller]
    /\ UNCHANGED <<phase, bundlers, running, tasks, mempool, txs, sanity>>

\* ----------------------------------------------------------- environment
\* a submitted bundle is included in a block: its receipt exists from now on
\* and the mempool drops the included user operations
Mine(k) ==
    /\ ~txs[k].mined
    /\ txs' = [txs EXCEPT ![k].mined = TRUE]
    /\ mempool' = [mempool EXCEPT ![txs[k].ep] = @ \ txs[k].uos]
    /\ UNCHANGED <<phase, bundlers, running, tasks, callers, sanity>>

\* ------------------------------------------------- Sender sanity check
\* the inputs of one check: the user operation, the answer of get_code for its
\* sender, the pending operations of that sender in the mempool (the mempool
\* holds at most one operation per sender and nonce) and the reputation
Nonces == {0, 1}
Fees == {100, 105, 110, 115}
Codes == {"err", "empty", "code"}
InitCodes == {"empty", "init"}
Reputations == {"ok", "banned"}

UserOperations ==
    [nonce : Nonces, init_code : InitCodes, max_fee_per_gas : Fees, max_priority_fee_per_gas : Fees]

PendingOps == [nonce : Nonces, max_fee_per_gas : Fees, max_priority_fee_per_gas : Fees]

SenderPools ==
    {pool \in UNION {[1 .. n -> PendingOps] : n \in 0 .. MaxPrev} :
        \A i, j \in 1 .. Len(pool) : pool[i].nonce = pool[j].nonce => i = j}

SanityInputs ==
    [pc : {"ready"}, uo : UserOperations, code : Codes, pool : SenderPools,
     reputation : Reputations, result : {"none"}]

\* the minimum increase of a replacement, in percent
GAS_INCREASE_PERC == 10

\* the least fee that is the previous fee raised by the percentage
calculate_valid_gas(gas_price, gas_incr_perc) ==
    (gas_price * (100 + gas_incr_perc) + 99) \div 100

\* a failed bytecode query going on as an answer
get_code_never_fails(code) == FALSE

\* lines 42-47: the bytecode query failed
get_code_failed(code) == code = "err"

\* the rule rejecting only an undeployed sender without init code
sender_and_init_code_allowed(code, uo) == code = "empty" /\ uo.init_code = "empty"

\* lines 50-51: sender deployed or init code given, but not both
sender_or_init_code_violated(code, uo) ==
    \/ (code = "empty" /\ uo.init_code = "empty")
    \/ (code # "empty" /\ uo.init_code # "empty")

get_number_by_sender(pool) == Len(pool)

get_all_by_sender(pool) == pool

\* the first pending operation, whatever its nonce
find_prev_any_nonce(pool, nonce) == IF pool = << >> THEN << >> ELSE <<pool[1]>>

\* lines 63-67: the first pending operation of the sender with the same nonce,
\* as a sequence of length 0 (None) or 1 (Some)
find_prev(pool, nonce) ==
    LET hits == {i \in 1 .. Len(get_all_by_sender(pool)) : get_all_by_sender(pool)[i].nonce = nonce}
    IN  IF hits = {}
        THEN << >>
        ELSE <<get_all_by_sender(pool)[CHOOSE i \in hits : \A j \in hits : i <= j]>>

\* a replacement rejected only when both fees are too low
gas_increase_too_low_both(uo, uo_prev) ==
    /\ uo.max_fee_per_gas < calculate_valid_gas(uo_prev.max_fee_per_gas, GAS_INCREASE_PERC)
    /\ uo.max_priority_fee_per_gas <
          calculate_valid_gas(uo_prev.max_priority_fee_per_gas, GAS_INCREASE_PERC)

\* lines 70-76
gas_increase_too_low(uo, uo_prev) ==
    \/ uo.max_fee_per_gas < calculate_valid_gas(uo_prev.max_fee_per_gas, GAS_INCREASE_PERC)
    \/ uo.max_priority_fee_per_gas <
          calculate_valid_gas(uo_prev.max_priority_fee_per_gas, GAS_INCREASE_PERC)

\* Sender::check_user_operation, lines 27-86: Ok(()) or the SanityError
check_user_operation(uo, code, pool) ==
    IF get_code_failed(code) THEN "Provider"
    ELSE IF sender_or_init_code_violated(code, uo) THEN "Sender"
    ELSE IF get_number_by_sender(pool) = 0 THEN "Ok"
    ELSE LET uo_prev == find_prev(pool, uo.nonce)
         IN  IF uo_prev # << >> /\ gas_increase_too_low(uo, uo_prev[1])
             THEN "Sender"
             ELSE "Ok"

\* one call of the check on the inputs at hand
Sender_check_user_operation ==
    /\ sanity.pc = "ready"
    /\ sanity' = [sanity EXCEPT !.pc = "checked",
                                !.result = check_user_operation(sanity.uo, sanity.code, sanity.pool)]
    /\ UNCHANGED <<phase, bundlers, running, tasks, callers, mempool, txs>>

\* ---------------------------------------------------------- specification
\* no user operation is under the Sender check
NoCheck == [pc |-> "none"]

Init ==
    /\ phase = "init"
    /\ bundlers = << >>
    /\ running = FALSE
    /\ tasks = << >>
    /\ callers = [c \in Callers |-> IdleCaller]
    /\ mempool = << >>
    /\ txs = << >>
    /\ sanity = NoCheck

\* the control surface: set_bundler_mode
ModeStep ==
    \E c \in Callers :
        \/ set_bundler_mode_Manual(c)
        \/ \E int \in Intervals : set_bundler_mode_Auto(c, int)
        \/ start_bundling_spawn(c)
        \/ Reply(c)

\* the control surface: send_bundle_now, one call at a time
NowStep ==
    \E c \in {1} :
        \/ send_bundle_now(c)
        \/ sb_fetch_return(c)
        \/ sb_send_return(c)
        \/ poll_return(c)
        \/ sleep_done(c)
        \/ Reply(c)

Included == \E k \in 1 .. Len(txs) : Mine(k)

\* the service with its loop tasks under concurrent mode changes, while no
\* submitted bundle is included
Next ==
    \/ New
    \/ bundler_service_run
    \/ LoopStep
    \/ ModeStep

Spec == Init /\ [][Next]_vars

\* set_bundler_mode, one call at a time
OneModeStep ==
    \E c \in {1} :
        \/ set_bundler_mode_Manual(c)
        \/ \E int \in Intervals : set_bundler_mode_Auto(c, int)
        \/ start_bundling_spawn(c)
        \/ Reply(c)

FairNext ==
    \/ New
    \/ bundler_service_run
    \/ LoopStep
    \/ OneModeStep
    \/ Included

\* the service under mode changes and inclusion of its bundles, with a runtime
\* that keeps scheduling the spawned loop tasks: their timers fire and their
\* pending network calls return
FairSpec == Init /\ [][FairNext]_vars /\ WF_vars(LoopStep)

\* the service with its loop tasks under send_bundle_now calls and inclusion
\* of its bundles
NowNext ==
    \/ New
    \/ bundler_service_run
    \/ LoopStep
    \/ NowStep
    \/ Included

NowSpec == Init /\ [][NowNext]_vars

\* the Sender sanity check on every input
SenderInit ==
    /\ phase = "init"
    /\ bundlers = << >>
    /\ running = FALSE
    /\ tasks = << >>
    /\ callers = [c \in Callers |-> IdleCaller]
    /\ mempool = << >>
    /\ txs = << >>
    /\ sanity \in SanityInputs

SenderNext == Sender_check_user_operation

SenderSpec == SenderInit /\ [][SenderNext]_vars

\* ----------------------------------------------------------------- claims
\* the live loop tasks of bundler b
LoopsOf(b) == {i \in 1 .. Len(tasks) : tasks[i].bundler = b}

\* C1: after stop_bundling and start_bundling, no loop task of an earlier
\* start goes on beside the newly spawned one: a task that passes its flag
\* check and fetches has no younger task of the same bundler in its loop.
C1_NoLoopOutlivesRestart ==
    [][\A i \in 1 .. Len(tasks) :
          (Len(tasks') = Len(tasks) /\ tasks[i].pc = "timer" /\ tasks'[i].pc = "fetch")
             => \A j \in LoopsOf(tasks[i].bundler) : j <= i \/ tasks[j].pc = "new"]_vars

\* C2: a start_bundling call that reads the flag as true spawns no task and
\* leaves the flag true; a call that passed the guard spawns exactly one task
\* per bundler, as does the start of bundler_service_run.
C2_StartIdempotent ==
    [][/\ \A c \in Callers :
            /\ (running /\ callers[c].pc = "idle" /\ callers'[c].op = "auto")
                  => (callers'[c].pc = "done" /\ tasks' = tasks /\ running')
            /\ (callers[c].pc = "start_set" /\ callers'[c].pc = "done")
                  => (running' /\ tasks' = tasks \o SubSeq(tasks', Len(tasks) + 1, Len(tasks'))
                        /\ Len(tasks') = Len(tasks) + Len(bundlers)
                        /\ \A b \in 1 .. Len(bundlers) : tasks'[Len(tasks) + b].bundler = b)
       /\ Len(tasks') > Len(tasks)
             => \/ phase = "constructed"
                \/ \E c \in Callers : callers[c].pc = "start_set" /\ callers'[c].pc = "done"]_vars

C2_Witness ==
    \E c \in Callers :
        /\ callers[c].pc = "done" /\ callers[c].op = "auto" /\ ~callers[c].spawned
        /\ running /\ Len(tasks) = Len(bundlers) /\ Len(bundlers) >= 1

\* C7: a loop task ends only by reading the flag as false at a tick: a failed
\* fetch or send leaves the task alive, waiting for its next tick.
C7_LoopEndsOnlyOnStop ==
    [][Len(tasks') < Len(tasks)
          => ~running /\ \E i \in 1 .. Len(tasks) :
                            tasks[i].pc = "timer" /\ tasks' = RemoveAt(tasks, i)]_vars

\* the tasks that are in the fetch or the send of a tick
InTick(ts) == {i \in 1 .. Len(ts) : ts[i].pc \in {"fetch", "send"}}

\* C9: once the flag is false every loop task ends, unless start_bundling sets
\* the flag again; while the flag is false a task that reaches its flag check
\* ends there, no task starts a fetch, and no send starts without its fetch.
C9_StopIsCooperative ==
    /\ (~running) ~> (running \/ tasks = << >>)
    /\ [][~running =>
             /\ Cardinality(InTick(tasks')) <= Cardinality(InTick(tasks))
             /\ Cardinality({i \in InTick(tasks') : tasks'[i].pc = "fetch"})
                   <= Cardinality({i \in InTick(tasks) : tasks[i].pc = "fetch"})
             /\ \A i \in 1 .. Len(tasks) :
                   (tasks[i].pc = "timer" /\ Len(tasks') = Len(tasks))
                      => tasks'[i] = tasks[i]]_vars

C9_Witness ==
    /\ phase = "serving" /\ ~running
    /\ \E i \in 1 .. Len(tasks) : tasks[i].pc = "send"

\* a send_bundle_now call that has answered
Returned(c) == callers[c].op = "now" /\ callers[c].pc = "done"

\* a send_bundle_now call whose send_bundles went through every bundler
WentThrough(c) ==
    /\ callers[c].op = "now" /\ Len(bundlers) >= 1
    /\ callers[c].failed = "none" /\ Len(callers[c].tx_hashes) = Len(bundlers)

\* C3: send_bundle_now answers with a transaction identifier only at the poll
\* that observed the receipt: after N polls without a receipt it answers at
\* poll N+1, and while it polls or sleeps no poll has observed a receipt.
C3_ReturnsAtReceipt ==
    \A c \in Callers :
        /\ callers[c].pc \in {"poll", "sleep"}
              => callers[c].polls = callers[c].misses /\ callers[c].resp.kind = "none"
        /\ (Returned(c) /\ callers[c].resp.kind = "ok" /\ callers[c].resp.res # NoTx)
              => /\ callers[c].polls = callers[c].misses + 1
                 /\ callers[c].resp.res = callers[c].res
                 /\ txs[callers[c].res].mined

C3_Witness ==
    \E c \in Callers :
        Returned(c) /\ callers[c].resp.res # NoTx /\ callers[c].misses >= 1

\* C4 as claimed: once the first bundler has an outcome, send_bundles goes
\* through every bundler and returns that outcome, whatever the later
\* bundlers' fetches and sends do.
C4_FirstOutcomeWhateverLater ==
    \A c \in Callers :
        (Returned(c) /\ Len(callers[c].tx_hashes) >= 1)
           => /\ Len(callers[c].tx_hashes) = Len(bundlers)
              /\ callers[c].resp.kind = "ok"
              /\ callers[c].res = callers[c].tx_hashes[1]

\* C4 amended: send_bundles goes through the bundlers in order; when no fetch
\* and no send fails it has the outcome of every bundler and returns the
\* first one; when one fails it stops at that bundler and returns the failure.
C4_FirstOutcomeUnlessFailure ==
    \A c \in Callers :
        /\ callers[c].op = "now" =>
              /\ Len(callers[c].fetched) <= Len(bundlers)
              /\ \A k \in 1 .. Len(callers[c].tx_hashes) :
                    LET tx == callers[c].tx_hashes[k]
                    IN  tx # NoTx => /\ txs[tx].ep = bundlers[k]
                                     /\ txs[tx].uos = callers[c].fetched[k]
                                     /\ \A l \in 1 .. k - 1 : callers[c].tx_hashes[l] < tx
        /\ (callers[c].op = "now" /\ callers[c].pc \in {"poll", "sleep", "done"}
              /\ callers[c].failed = "none" /\ Len(bundlers) >= 1)
              => /\ Len(callers[c].tx_hashes) = Len(bundlers)
                 /\ callers[c].res = callers[c].tx_hashes[1]
                 /\ callers[c].resp.kind \in {"none", "ok"}
        /\ (Returned(c) /\ callers[c].failed # "none")
              => /\ Len(callers[c].tx_hashes) < Len(bundlers)
                 /\ callers[c].resp.kind = "err"

C4_Witness ==
    \E c \in Callers :
        /\ Returned(c) /\ WentThrough(c)
        /\ Len(bundlers) = 2
        /\ callers[c].tx_hashes[1] = NoTx /\ callers[c].tx_hashes[2] # NoTx

\* C5: when every bundler's fetch returned no pending operation,
\* send_bundle_now answers ok with no transaction, without polling, and the
\* sends of the call submit nothing.
C5_EmptyPoolsEmptyResult ==
    /\ [](\A c \in Callers :
            (Returned(c) /\ Len(bundlers) >= 1
               /\ Len(callers[c].fetched) = Len(bundlers)
               /\ \A k \in 1 .. Len(bundlers) : callers[c].fetched[k] = {})
               => /\ callers[c].resp = [kind |-> "ok", res |-> NoTx]
                  /\ callers[c].failed = "none"
                  /\ \A k \in 1 .. Len(bundlers) : callers[c].tx_hashes[k] = NoTx)
    /\ [][\A c \in Callers :
            (callers[c].pc = "sb_send" /\ Last(callers[c].fetched) = {}
               /\ callers'[c] # callers[c]) => txs' = txs]_vars

C5_Witness ==
    \E c \in Callers :
        /\ Returned(c) /\ Len(bundlers) = 2 /\ Len(callers[c].fetched) = 2
        /\ \A k \in 1 .. 2 : callers[c].fetched[k] = {}

\* C6: when send_bundles returned no transaction identifier, send_bundle_now
\* answers ok with the empty result without a receipt poll and without a sleep.
C6_NoTxNoPolling ==
    \A c \in Callers :
        /\ callers[c].pc \in {"poll", "sleep"} => callers[c].res # NoTx
        /\ (Returned(c) /\ WentThrough(c) /\ callers[c].tx_hashes[1] = NoTx)
              => /\ callers[c].resp = [kind |-> "ok", res |-> NoTx]
                 /\ callers[c].polls = 0

C6_Witness ==
    \E c \in Callers :
        Returned(c) /\ WentThrough(c) /\ callers[c].tx_hashes[1] = NoTx

\* C8: a failed fetch or send of any bundler ends send_bundle_now at once with
\* a failure answer: the step is not tried again, no later bundler is
\* processed and no receipt is polled.
C8_FailureSurfaces ==
    \A c \in Callers :
        (callers[c].op = "now" /\ callers[c].failed # "none")
           => /\ callers[c].pc = "done"
              /\ callers[c].resp.kind = "err"
              /\ callers[c].polls = 0
              /\ Len(callers[c].fetched) =
                    Len(callers[c].tx_hashes) + (IF callers[c].failed = "send" THEN 1 ELSE 0)

C8_Witness ==
    \E c \in Callers :
        /\ Returned(c) /\ callers[c].failed = "send"
        /\ Len(callers[c].tx_hashes) = 1 /\ callers[c].tx_hashes[1] # NoTx

\* C10: with no bundler configured the service is never started: the server
\* does not serve, the flag is never set and send_bundle_now is never run.
C10_ZeroBundlersRejected ==
    (phase # "init" /\ Len(bundlers) = 0)
       => /\ phase # "serving"
          /\ ~running
          /\ \A c \in Callers : callers[c].op # "now"

\* C11: a constructed service is stopped; the step that answers
\* set_bundler_mode(Manual) leaves the flag false, the step that answers
\* set_bundler_mode(Auto, interval) leaves it true, and the answer is Ok from
\* either prior state of the flag.
C11_ModeDrivesFlag ==
    /\ [](phase = "constructed" => ~is_running)
    /\ [][\A c \in Callers :
            /\ (callers[c].pc = "idle" /\ callers'[c].op = "manual")
                  => (callers'[c].pc = "done" /\ callers'[c].resp = SetModeOk /\ ~running')
            /\ (callers[c].pc \in {"idle", "start_set"} /\ callers'[c].op = "auto"
                     /\ callers'[c].pc = "done")
                  => (callers'[c].resp = SetModeOk /\ running')]_vars

C11_Witness ==
    /\ is_running
    /\ \E c, d \in Callers :
          /\ callers[c].pc = "done" /\ callers[c].op = "manual"
          /\ callers[d].pc = "done" /\ callers[d].op = "auto" /\ callers[d].spawned

\* the check has answered on a sender whose bytecode query succeeded and
\* that is either deployed or carries init code, but not both
DeploymentRuleMet ==
    /\ sanity.pc = "checked"
    /\ sanity.code # "err"
    /\ (sanity.code = "code") # (sanity.uo.init_code = "init")

\* the pending operations of the sender with the nonce of the checked one
SameNonce == {i \in 1 .. Len(sanity.pool) : sanity.pool[i].nonce = sanity.uo.nonce}

\* fee new is at least fee prev raised by the minimum-increase fraction
RaisedEnough(new, prev) == new * 100 >= prev * (100 + GAS_INCREASE_PERC)

\* C12: with a pending operation P of the same sender and nonce, the checked
\* operation N passes iff both its max fee and its max priority fee are at
\* least P's raised by the fraction p, and gets the Sender error otherwise;
\* with p = 0.10 and P.max_fee_per_gas = 100, N.max_fee_per_gas = 105 is
\* rejected and 115, with the priority fee raised likewise, is accepted.
C12_ReplacementRule ==
    DeploymentRuleMet =>
        \A i \in SameNonce :
            LET P == sanity.pool[i]
                N == sanity.uo
            IN  /\ sanity.result = (IF /\ RaisedEnough(N.max_fee_per_gas, P.max_fee_per_gas)
                                       /\ RaisedEnough(N.max_priority_fee_per_gas,
                                                       P.max_priority_fee_per_gas)
                                    THEN "Ok" ELSE "Sender")
                /\ (GAS_INCREASE_PERC = 10 /\ P.max_fee_per_gas = 100 /\ N.max_fee_per_gas = 105)
                      => sanity.result = "Sender"
                /\ (GAS_INCREASE_PERC = 10 /\ P.max_fee_per_gas = 100 /\ N.max_fee_per_gas = 115
                       /\ P.max_priority_fee_per_gas = 100 /\ N.max_priority_fee_per_gas = 110)
                      => sanity.result = "Ok"

C12_Witness ==
    /\ DeploymentRuleMet
    /\ \E i \in SameNonce :
          /\ sanity.pool[i].max_fee_per_gas = 100 /\ sanity.uo.max_fee_per_gas = 115
          /\ sanity.pool[i].max_priority_fee_per_gas = 105
          /\ sanity.uo.max_priority_fee_per_gas = 115
          /\ i = 2
    /\ sanity.result = "Sender"

\* C13: with the bytecode query succeeded, a sender that has bytecode and an
\* operation that carries init code, or neither of the two, gets the Sender
\* error; with exactly one of the two and no pending operation of the same
\* nonce the check passes.
C13_DeployedXorInitCode ==
    (sanity.pc = "checked" /\ sanity.code # "err")
       => /\ ((sanity.code = "code") = (sanity.uo.init_code = "init"))
                => sanity.result = "Sender"
          /\ (SameNonce = {} /\ (sanity.code = "code") # (sanity.uo.init_code = "init"))
                => sanity.result = "Ok"

C13_Witness ==
    /\ sanity.pc = "checked"
    /\ sanity.code = "code" /\ sanity.uo.init_code = "init"
    /\ sanity.pool = << >>
    /\ sanity.result = "Sender"

\* C14: with the deployment rule met, an operation of a sender with no pending
\* operation passes whatever its fees, and so does an operation of a sender
\* whose pending operations all have another nonce.
C14_FirstOperationPasses ==
    (DeploymentRuleMet /\ SameNonce = {}) => sanity.result = "Ok"

C14_Witness ==
    /\ DeploymentRuleMet
    /\ Len(sanity.pool) = 1 /\ SameNonce = {}
    /\ sanity.uo.max_fee_per_gas < sanity.pool[1].max_fee_per_gas
    /\ sanity.result = "Ok"

\* C15: a failed bytecode query gives the Provider error, never the Sender
\* error nor success; the Sender error and success are given only after the
\* query succeeded; the check leaves the mempool and the reputation as they
\* were.
C15_ProviderErrorOnly ==
    /\ [](sanity.pc = "checked" => (sanity.result = "Provider" <=> sanity.code = "err"))
    /\ [][sanity'.pc = "checked"
             => (sanity'.pool = sanity.pool /\ sanity'.reputation = sanity.reputation
                   /\ mempool' = mempool)]_vars

C15_Witness ==
    /\ sanity.pc = "checked"
    /\ sanity.code = "err"
    /\ sanity.uo.init_code = "empty"
    /\ sanity.result = "Provider"

\* C16: of the start_bundling calls that overlap on a stopped service only
\* one spawns loop tasks: a call that spawns a task per bundler finds the
\* flag still false, no other call having spawned since its own guard.
C16_OneSpawnPerBundler ==
    [][\A c \in Callers :
          (callers[c].pc = "start_set" /\ Len(tasks') > Len(tasks)) => ~is_running]_vars

\* C17: send_bundles undoes nothing and goes no further: when the fetch or
\* the send of a bundler fails, the step leaves the submitted transactions as
\* they are, the transactions of the earlier bundlers of the call stay
\* submitted, no later bundler is fetched or sent, and the call answers with
\* the failure; a submitted transaction is never withdrawn.
C17_NoRollbackNoContinuation ==
    /\ [](\A c \in Callers :
            (callers[c].op = "now" /\ callers[c].failed # "none")
               => /\ callers[c].pc = "done" /\ callers[c].resp.kind = "err"
                  /\ \A k \in 1 .. Len(callers[c].tx_hashes) :
                        callers[c].tx_hashes[k] # NoTx
                           => /\ callers[c].tx_hashes[k] \in 1 .. Len(txs)
                              /\ txs[callers[c].tx_hashes[k]].ep = bundlers[k]
                              /\ txs[callers[c].tx_hashes[k]].uos = callers[c].fetched[k]
                  /\ Len(callers[c].fetched) <= Len(callers[c].tx_hashes) + 1
                  /\ Len(callers[c].tx_hashes) < Len(bundlers))
    /\ [][/\ Len(txs') >= Len(txs)
          /\ \A k \in 1 .. Len(txs) : txs'[k].ep = txs[k].ep /\ txs'[k].uos = txs[k].uos
          /\ \A c \in Callers :
                (callers[c].failed = "none" /\ callers'[c].failed # "none") => txs' = txs]_vars

C17_Witness ==
    \E c \in Callers :
        /\ callers[c].pc = "done" /\ callers[c].failed = "fetch"
        /\ Len(callers[c].fetched) = 1 /\ Len(callers[c].tx_hashes) = 1
        /\ callers[c].tx_hashes[1] \in 1 .. Len(txs)
        /\ Len(bundlers) = 2

\* C18: a pending user operation is in one bundle at most: no two submitted
\* bundle transactions of the same entry point hold the same user operation.
C18_OneBundlePerOperation ==
    \A k, l \in 1 .. Len(txs) :
        (k # l /\ txs[k].ep = txs[l].ep) => txs[k].uos \cap txs[l].uos = {}

\* C19: a failed receipt query is a poll without receipt: the call does not
\* fail, sleeps and polls again; it answers with the transaction id at the
\* poll that observes the receipt, whatever failed before, and while no poll
\* has observed a receipt it has not answered.
C19_FailedQueryIsNoReceipt ==
    /\ [](\A c \in Callers :
            /\ callers[c].errs >= 1 => callers[c].resp.kind \in {"none", "ok"}
            /\ callers[c].pc \in {"poll", "sleep"}
                  => (callers[c].resp.kind = "none" /\ callers[c].misses = callers[c].polls)
            /\ (callers[c].pc = "done" /\ callers[c].polls >= 1)
                  => /\ callers[c].polls = callers[c].misses + 1
                     /\ callers[c].resp = [kind |-> "ok", res |-> callers[c].res]
                     /\ txs[callers[c].res].mined)
    /\ [][\A c \in Callers :
            /\ (callers[c].pc = "poll" /\ callers'[c].errs > callers[c].errs)
                  => (callers'[c].pc = "sleep" /\ callers'[c].resp = callers[c].resp)
            /\ (callers[c].pc = "sleep" /\ callers'[c] # callers[c])
                  => callers'[c] = [callers[c] EXCEPT !.pc = "poll"]]_vars

C19_Witness ==
    \E c \in Callers :
        /\ callers[c].pc = "done" /\ callers[c].errs >= 1
        /\ callers[c].resp.kind = "ok" /\ callers[c].resp.res # NoTx

\* C20: whenever the flag is true and no start_bundling call is between its
\* guard and its spawning, every bundler has a live loop task, whatever the
\* interval the loops were started with.
C20_RunningMeansLoops ==
    (phase = "serving" /\ is_running /\ \A c \in Callers : callers[c].pc # "start_set")
       => \A b \in 1 .. Len(bundlers) : LoopsOf(b) # {}

====
